---- MODULE Spec2Model ----
(***************************************************************************)
(* State-machine model of git_sim.repository.Repository and of the linked  *)
(* Stack it is built on (git_sim.data_structures).                         *)
(*                                                                         *)
(* Strings that enter the commit id are sequences of one-character         *)
(* strings, so that the string the commit operation hashes is built by     *)
(* concatenation exactly as the f-strings of Repository.commit build it.   *)
(* None is the empty sequence.  A Python dict that the code iterates is an *)
(* insertion-ordered sequence of <<key, value>> pairs.                     *)
(*                                                                         *)
(* Specifications:                                                         *)
(*   Spec      the repository under add, commit, branch, checkout and      *)
(*             checkout_commit;                                            *)
(*   SpecStage the staging area under add alone, over more paths;          *)
(*   SpecId    two repositories side by side, staged and committed with    *)
(*             inputs that differ in at most one component, to compare     *)
(*             the commit ids they compute;                                *)
(*   SpecPR    the pull requests of a repository of two branches, under    *)
(*             every operation of the pull-request engine;                 *)
(*   SpecCreate create_pull_request and clear_pull_requests over           *)
(*             repositories of several shapes;                             *)
(*   SpecTag   tag_pull_request on a pull request in every status;         *)
(*   SpecAdd   add over repositories of several shapes;                    *)
(*   SpecView  status next to add and commit;                              *)
(*   SpecRef   the references between branches, head, commits and pull     *)
(*             requests under every operation that writes them;            *)
(*   SpecManager the repositories of a RepositoryManager;                  *)
(*   SpecWork  checkout next to add and commit, over two paths;            *)
(*   SpecCli   the command checkout -b next to add and commit;             *)
(*   SpecReaders status, get_commit_history, list_pull_requests and        *)
(*             get_next_pull_request running at the same time.             *)
(***************************************************************************)
EXTENDS Integers, Sequences, FiniteSets, TLC

VARIABLES
  staging_stack,      \* Repository.staging_stack, top of the stack first
  commits,            \* Repository.commits: commit id -> Commit
  current_branch,     \* Repository.current_branch
  branches,           \* Repository.branches: name -> commit id or None
  head,               \* Repository.head
  working_directory,  \* Repository.working_directory: filename -> content
  detached_head,      \* Repository.detached_head
  pull_requests,      \* Repository.pull_requests, front of the queue first
  pr_counter,         \* Repository.pr_counter
  pr_map,             \* Repository.pr_map: PR id -> PullRequest
  ret,                \* outcome of the last call: operation, arguments, error, value
  twin,               \* SpecId: the two repositories observed side by side
  repositories,       \* RepositoryManager.repositories, head of the list first
  current_repository, \* RepositoryManager.current_repository
  readers             \* SpecReaders: the calls in progress, one per thread

repo_vars == <<staging_stack, commits, current_branch, branches, head,
               working_directory, detached_head>>
pr_vars == <<pull_requests, pr_counter, pr_map>>
vars == <<staging_stack, commits, current_branch, branches, head,
          working_directory, detached_head, pull_requests, pr_counter, pr_map,
          ret, twin, repositories, current_repository, readers>>
mgr_vars == <<repositories, current_repository>>
side_vars == <<twin, mgr_vars, readers>>

----------------------------------------------------------------------------
(* Bounds and input domains *)

MaxCommits == 2

None == << >>

\* values datetime.now() returns.  The local wall clock is not monotonic and
\* may return the same value to two calls; in Spec it reads the same at every
\* commit, SpecId varies it.
Timestamps == {0}

Paths == { <<"a">> }
Contents == { <<"c">>, <<"d">> }
Messages == { <<"m">> }
Authors == { <<"u">> }
BranchNames == { "main", "x" }

StagePaths == { <<"a">>, <<"b">>, <<"c">>, <<"d">> }

TwinPaths == { <<"a">>, <<"a", "b">> }
TwinContents == { <<"c">>, <<"b", "c">> }
TwinMessages == { <<"m">>, <<"n">> }
TwinAuthors == { <<"u">>, <<"v">> }
TwinTimestamps == {0, 1}

\* pull requests: at most MaxPRs are created
MaxPRs == 2
Titles == { <<"t">> }
Descriptions == { <<"d">> }
Reviewers == { <<"r">> }
Tags == { <<"g">> }
TagTexts == { <<"g">>, <<"h">> }
\* values datetime.now() returns when a pull request is created and, later,
\* when it is closed; a datetime is the tuple of its components, here one
CreatedTimes == { <<0>> }
ClosedTimes == { <<1>> }
\* branch names given to create_pull_request; "y" is never a branch
PRBranchNames == { "main", "x", "y" }

\* repositories: at most MaxRepos are in the list of the manager
MaxRepos == 2
RepoNames == { "r", "s" }
RepoPaths == { "/p", "/q" }

\* reader calls in progress at once
MaxReaders == 2
ReaderKinds == { "status", "log", "list", "next" }

EmptyDict == [k \in {} |-> None]

\* The ValueError messages raised by Repository
ErrNothingToCommit == "Nada para commitear"
ErrBranchExists == "Branch already exists"
ErrBranchMissing == "Branch does not exist"
ErrUncommittedBranch == "Cannot switch branches with uncommitted changes"
ErrCommitMissing == "Commit not found"
ErrUncommittedCommit == "Cannot checkout commit with uncommitted changes"
ErrRepoMissing == "Repository not found"
ErrSourceMissing == "Rama origen no existe"
ErrTargetMissing == "Rama destino no existe"
ErrNoChanges == "No hay cambios para fusionar"
ErrPRMissing == "Pull request no encontrado"
ErrPRNotOpen == "Pull request no esta abierto"
Ok == "ok"

----------------------------------------------------------------------------
(* Strings, hashing and ordering *)

\* hashlib.sha1(s.encode()).hexdigest(): a collision-free digest, a
\* self-delimiting string over an alphabet of its own.
sha1(s) == <<"[">> \o s \o <<"]">>

calculate_file_hash(content) == sha1(content)

\* str(x) as the f-string of commit applies it to head
StrOfId(x) == IF x = None THEN <<"N", "o", "n", "e">> ELSE x

\* str(datetime)
StrOfTimestamp(t) == << ToString(t) >>

\* code point of a character
CharOrd(c) ==
  CASE c = "a" -> 97 [] c = "b" -> 98 [] c = "c" -> 99 [] c = "d" -> 100
    [] c = "m" -> 109 [] c = "n" -> 110 [] c = "u" -> 117 [] c = "v" -> 118
    [] OTHER -> 0

\* Python's str.__lt__
RECURSIVE StrLess(_, _)
StrLess(s, t) ==
  IF s = << >> THEN t # << >>
  ELSE IF t = << >> THEN FALSE
  ELSE IF Head(s) = Head(t) THEN StrLess(Tail(s), Tail(t))
  ELSE CharOrd(Head(s)) < CharOrd(Head(t))

\* Python's tuple.__lt__ on (filename, content)
PairLess(p, q) ==
  \/ StrLess(p[1], q[1])
  \/ p[1] = q[1] /\ StrLess(p[2], q[2])

RECURSIVE SortedSeq(_)
SortedSeq(S) ==
  IF S = {} THEN << >>
  ELSE LET m == CHOOSE x \in S : \A y \in S \ {x} : PairLess(x, y)
       IN  <<m>> \o SortedSeq(S \ {m})

----------------------------------------------------------------------------
(* dict, in insertion order *)

OrdKeys(d) == { d[i][1] : i \in DOMAIN d }
OrdHas(d, k) == k \in OrdKeys(d)
OrdGet(d, k) == d[CHOOSE i \in DOMAIN d : d[i][1] = k][2]

\* d[k] = v
OrdSet(d, k, v) ==
  IF OrdHas(d, k)
  THEN [i \in DOMAIN d |-> IF d[i][1] = k THEN <<k, v>> ELSE d[i]]
  ELSE Append(d, <<k, v>>)

\* dict(d), where the order of iteration is not used
DictOf(d) == [k \in OrdKeys(d) |-> OrdGet(d, k)]

DictSet(d, k, v) == [x \in (DOMAIN d) \cup {k} |-> IF x = k THEN v ELSE d[x]]

\* sorted(changes.items())
sorted_items_unsorted(changes) == changes
sorted_items(changes) == SortedSeq({ changes[i] : i \in DOMAIN changes })

----------------------------------------------------------------------------
(* Stack, top first *)

Push(s, x) == <<x>> \o s
IsEmpty(s) == Len(s) = 0

\* add: pop every item, push on temp_stack the items of another path
RECURSIVE DrainExcept(_, _, _)
DrainExcept(src, temp_stack, filename) ==
  IF IsEmpty(src) THEN temp_stack
  ELSE DrainExcept(Tail(src),
                   IF Head(src).path # filename THEN Push(temp_stack, Head(src))
                                                ELSE temp_stack,
                   filename)

\* while not temp_stack.is_empty(): dst.push(temp_stack.pop())
RECURSIVE DrainAll(_, _)
DrainAll_unrestored(temp_stack, dst) == temp_stack
DrainAll(temp_stack, dst) ==
  IF IsEmpty(temp_stack) THEN dst
  ELSE DrainAll(Tail(temp_stack), Push(dst, Head(temp_stack)))

\* commit: changes[staged_file.path] = staged_file.content, popping from the top
RECURSIVE CollectChanges(_, _)
CollectChanges(src, changes) ==
  IF IsEmpty(src) THEN changes
  ELSE CollectChanges(Tail(src), OrdSet(changes, Head(src).path, Head(src).content))

----------------------------------------------------------------------------
(* Repository.add *)

\* the StagedFile that add builds; its status is 'M' when the commit of head
\* has the file with another content
StagedFileFor_modified(hd, cmts, filename, content) ==
  LET inHead == hd # None /\ OrdHas(cmts[hd].changes, filename)
  IN  [ path |-> filename,
        content |-> content,
        status |-> IF inHead THEN "M" ELSE "A",
        checksum |-> calculate_file_hash(content),
        last_commit_id |-> IF inHead THEN hd ELSE None ]
StagedFileFor(hd, cmts, filename, content) ==
  LET inHead == hd # None /\ OrdHas(cmts[hd].changes, filename)
  IN  [ path |-> filename,
        content |-> content,
        status |-> IF inHead /\ OrdGet(cmts[hd].changes, filename) # content
                   THEN "M" ELSE "A",
        checksum |-> calculate_file_hash(content),
        last_commit_id |-> IF inHead THEN hd ELSE None ]

StackAfterAdd_reversed(stack, staged_file) ==
  Push(DrainExcept(stack, << >>, staged_file.path), staged_file)
StackAfterAdd(stack, staged_file) ==
  LET temp_stack == DrainExcept(stack, << >>, staged_file.path)
  IN  Push(DrainAll(temp_stack, << >>), staged_file)

\* how many staged items add pops without pushing them back
DroppedByAdd(stack, filename) ==
  Len(stack) - Len(DrainExcept(stack, << >>, filename))

add(filename, content) ==
  /\ working_directory' = DictSet(working_directory, filename, content)
  /\ staging_stack' = StackAfterAdd(staging_stack,
                                    StagedFileFor(head, commits, filename, content))
  /\ ret' = [op |-> "add", args |-> <<filename, content>>, err |-> Ok,
             val |-> DroppedByAdd(staging_stack, filename)]
  /\ UNCHANGED <<commits, current_branch, branches, head, detached_head>>
  /\ UNCHANGED <<pr_vars, side_vars>>

----------------------------------------------------------------------------
(* Repository.commit *)

RECURSIVE ConcatItems(_)
ConcatItems(items) ==
  IF items = << >> THEN << >>
  ELSE Head(items)[1] \o Head(items)[2] \o ConcatItems(Tail(items))

content_str(message, timestamp, hd, author_email, changes) ==
  message \o StrOfTimestamp(timestamp) \o StrOfId(hd) \o author_email
          \o ConcatItems(sorted_items(changes))

CommitId(message, timestamp, hd, author_email, changes) ==
  sha1(content_str(message, timestamp, hd, author_email, changes))

StagedChanges(stack) == CollectChanges(stack, << >>)

\* the staging stack after commit has popped every file onto temp_stack and
\* pushed it back, before it clears the stack
RestoredByCommit(stack) == DrainAll(DrainAll(stack, << >>), << >>)

\* Commit(id=..., parent_id=self.head, changes=changes, branch=self.current_branch)
NewCommit_selfparent(commit_id, message, timestamp, author_email, hd, changes, cur) ==
  [ id |-> commit_id, message |-> message, timestamp |-> timestamp,
    author_email |-> author_email, parent_id |-> commit_id, changes |-> changes,
    branch |-> cur ]
NewCommit_noparent(commit_id, message, timestamp, author_email, hd, changes, cur) ==
  [ id |-> commit_id, message |-> message, timestamp |-> timestamp,
    author_email |-> author_email, parent_id |-> None, changes |-> changes,
    branch |-> cur ]
NewCommit(commit_id, message, timestamp, author_email, hd, changes, cur) ==
  [ id |-> commit_id,
    message |-> message,
    timestamp |-> timestamp,
    author_email |-> author_email,
    parent_id |-> hd,
    changes |-> changes,
    branch |-> cur ]

\* the commit that commit() builds from the staging area
MakeCommit(stack, hd, cur, message, author_email, timestamp) ==
  LET changes == StagedChanges(stack)
      commit_id == CommitId(message, timestamp, hd, author_email, changes)
  IN  NewCommit(commit_id, message, timestamp, author_email, hd, changes, cur)

\* if self.staging_stack.is_empty(): raise
CommitRejects_never(stack) == FALSE
CommitRejects(stack) == IsEmpty(stack)

\* self.commits[commit_id] = new_commit
CommitsAfterCommit_lost(cmts, new_commit) == cmts
CommitsAfterCommit(cmts, new_commit) == DictSet(cmts, new_commit.id, new_commit)

\* if not self.detached_head: self.branches[self.current_branch] = commit_id
BranchesAfterCommit_sameTip(brs, cur, detached, commit_id) ==
  IF ~detached
  THEN [b \in DOMAIN brs |-> IF brs[b] = brs[cur] THEN commit_id ELSE brs[b]]
  ELSE brs
BranchesAfterCommit(brs, cur, detached, commit_id) ==
  IF ~detached THEN [brs EXCEPT ![cur] = commit_id] ELSE brs

commit(message, author_email, timestamp) ==
  IF CommitRejects(staging_stack)
  THEN /\ ret' = [op |-> "commit", args |-> <<message, author_email>>,
                  err |-> ErrNothingToCommit, val |-> None]
       /\ UNCHANGED <<repo_vars, pr_vars, side_vars>>
  ELSE LET new_commit == MakeCommit(staging_stack, head, current_branch,
                                    message, author_email, timestamp)
       IN  /\ commits' = CommitsAfterCommit(commits, new_commit)
           /\ head' = new_commit.id
           /\ branches' = BranchesAfterCommit(branches, current_branch,
                                              detached_head, new_commit.id)
           /\ staging_stack' = << >>
           /\ ret' = [op |-> "commit", args |-> <<message, author_email>>,
                      err |-> Ok, val |-> new_commit.id]
           /\ UNCHANGED <<current_branch, working_directory, detached_head>>
           /\ UNCHANGED <<pr_vars, side_vars>>

----------------------------------------------------------------------------
(* Repository.branch, checkout, checkout_commit *)

\* self.branches[name] = self.head
BranchesAfterBranch_unborn(brs, name, hd) == DictSet(brs, name, None)
BranchesAfterBranch(brs, name, hd) == DictSet(brs, name, hd)

branch(name) ==
  IF name \in DOMAIN branches
  THEN /\ ret' = [op |-> "branch", args |-> <<name>>, err |-> ErrBranchExists, val |-> None]
       /\ UNCHANGED <<repo_vars, pr_vars, side_vars>>
  ELSE /\ branches' = BranchesAfterBranch(branches, name, head)
       /\ ret' = [op |-> "branch", args |-> <<name>>, err |-> Ok, val |-> None]
       /\ UNCHANGED <<staging_stack, commits, current_branch, head,
                      working_directory, detached_head>>
       /\ UNCHANGED <<pr_vars, side_vars>>

\* self.head = self.branches[branch_name]
HeadAfterCheckout_stale(brs, hd, branch_name) == hd
HeadAfterCheckout(brs, hd, branch_name) == brs[branch_name]

\* if not self.staging_stack.is_empty(): raise
CheckoutRejects_never(stack) == FALSE
CheckoutRejects(stack) == ~IsEmpty(stack)

\* the working directory checkout rebuilds: the changes of the commit of head,
\* or nothing
WorkingDirectoryAfterCheckout_kept(cmts, hd, wd) == wd
WorkingDirectoryAfterCheckout(cmts, hd, wd) ==
  IF hd # None /\ hd \in DOMAIN cmts THEN DictOf(cmts[hd].changes) ELSE EmptyDict

checkout(branch_name) ==
  IF branch_name \notin DOMAIN branches
  THEN /\ ret' = [op |-> "checkout", args |-> <<branch_name>>,
                  err |-> ErrBranchMissing, val |-> None]
       /\ UNCHANGED <<repo_vars, pr_vars, side_vars>>
  ELSE IF CheckoutRejects(staging_stack)
  THEN /\ ret' = [op |-> "checkout", args |-> <<branch_name>>,
                  err |-> ErrUncommittedBranch, val |-> None]
       /\ UNCHANGED <<repo_vars, pr_vars, side_vars>>
  ELSE /\ current_branch' = branch_name
       /\ head' = HeadAfterCheckout(branches, head, branch_name)
       /\ detached_head' = FALSE
       /\ working_directory' = WorkingDirectoryAfterCheckout(commits, head',
                                                              working_directory)
       /\ staging_stack' = << >>
       /\ ret' = [op |-> "checkout", args |-> <<branch_name>>, err |-> Ok, val |-> None]
       /\ UNCHANGED <<commits, branches>>
       /\ UNCHANGED <<pr_vars, side_vars>>

\* self.detached_head = True
DetachedAfterCheckoutCommit_kept(detached) == detached
DetachedAfterCheckoutCommit(detached) == TRUE

checkout_commit(commit_id) ==
  IF commit_id \notin DOMAIN commits
  THEN /\ ret' = [op |-> "checkout_commit", args |-> <<commit_id>>,
                  err |-> ErrCommitMissing, val |-> None]
       /\ UNCHANGED <<repo_vars, pr_vars, side_vars>>
  ELSE IF ~IsEmpty(staging_stack)
  THEN /\ ret' = [op |-> "checkout_commit", args |-> <<commit_id>>,
                  err |-> ErrUncommittedCommit, val |-> None]
       /\ UNCHANGED <<repo_vars, pr_vars, side_vars>>
  ELSE /\ head' = commit_id
       /\ detached_head' = DetachedAfterCheckoutCommit(detached_head)
       /\ working_directory' = DictOf(commits[commit_id].changes)
       /\ staging_stack' = << >>
       /\ ret' = [op |-> "checkout_commit", args |-> <<commit_id>>, err |-> Ok, val |-> None]
       /\ UNCHANGED <<commits, current_branch, branches>>
       /\ UNCHANGED <<pr_vars, side_vars>>

----------------------------------------------------------------------------
(* Repository.get_commit_history and _get_branch_commits *)

\* the loop "while current: append(current); current = commits[current].parent_id",
\* unrolled at most fuel times: the ids appended so far and the value of
\* current when the unrolling stops (None when the loop has ended)
RECURSIVE ParentWalk(_, _, _, _)
ParentWalk(cmts, current, fuel, acc) ==
  IF current = None \/ fuel = 0 \/ current \notin DOMAIN cmts
  THEN [ids |-> acc, current |-> current]
  ELSE ParentWalk(cmts, cmts[current].parent_id, fuel - 1, Append(acc, current))

\* a walk that visits no commit twice ends within this many iterations
WalkFuel(cmts) == Cardinality(DOMAIN cmts) + 1

get_commit_history_fromParent(cmts, hd) ==
  ParentWalk(cmts, IF hd = None THEN None ELSE cmts[hd].parent_id,
             WalkFuel(cmts), << >>)
get_commit_history(cmts, hd) == ParentWalk(cmts, hd, WalkFuel(cmts), << >>)

get_branch_commits(cmts, brs, branch_name) ==
  ParentWalk(cmts, brs[branch_name], WalkFuel(cmts), << >>)

FileStatus(path, status_, content) ==
  [path |-> path, status |-> status_, content |-> content]

\* status: pop every staged file, report it, push it on temp_stack
RECURSIVE StatusDrain(_, _, _)
StatusDrain(src, status_list, temp_stack) ==
  IF IsEmpty(src) THEN [status_list |-> status_list, temp_stack |-> temp_stack]
  ELSE StatusDrain(Tail(src),
                   Append(status_list,
                          FileStatus(Head(src).path, Head(src).status,
                                     Head(src).content)),
                   Push(temp_stack, Head(src)))

\* status(): the list it returns and the staging stack it leaves. The files of
\* the working directory that are not staged follow the staged ones as "new";
\* the working directory is kept without its order of insertion, its files
\* are listed in the order of their paths.
status(stack, wd) ==
  LET d == StatusDrain(stack, << >>, << >>)
      staged_files == { d.status_list[i].path : i \in DOMAIN d.status_list }
      rest == SortedSeq({ <<f, wd[f]>> : f \in (DOMAIN wd) \ staged_files })
  IN  [ status_list |->
          d.status_list \o
          [i \in DOMAIN rest |-> FileStatus(rest[i][1], "new", rest[i][2])],
        staging_stack |-> DrainAll(d.temp_stack, << >>) ]

----------------------------------------------------------------------------
(* Specification of the repository *)

\* a commit id that no commit has
UnknownCommitId == sha1(<<"?">>)

\* no repository manager and no call in progress
Idle ==
  /\ repositories = << >>
  /\ current_repository = None
  /\ readers = << >>

RepoInit ==
  /\ Idle
  /\ staging_stack = << >>
  /\ commits = EmptyDict
  /\ current_branch = "main"
  /\ branches = [b \in {"main"} |-> None]
  /\ head = None
  /\ working_directory = EmptyDict
  /\ detached_head = FALSE
  /\ pull_requests = << >>
  /\ pr_counter = 0
  /\ pr_map = EmptyDict
  /\ ret = [op |-> "init", args |-> << >>, err |-> Ok, val |-> None]

Init == RepoInit /\ twin = << >>

DoAdd == \E f \in Paths, c \in Contents : add(f, c)

\* at most MaxCommits commits are stored; a call that fails is always possible
DoCommit ==
  /\ IsEmpty(staging_stack) \/ Cardinality(DOMAIN commits) < MaxCommits
  /\ \E m \in Messages, a \in Authors, t \in Timestamps : commit(m, a, t)

DoBranch == \E n \in BranchNames : branch(n)

DoCheckout == \E n \in BranchNames : checkout(n)

DoCheckoutCommit == \E c \in (DOMAIN commits) \cup {UnknownCommitId} : checkout_commit(c)

Next ==
  \/ DoAdd
  \/ DoCommit
  \/ DoBranch
  \/ DoCheckout
  \/ DoCheckoutCommit

Spec == Init /\ [][Next]_vars

----------------------------------------------------------------------------
(* Specification of the staging area under add *)

DoStageAdd == \E f \in StagePaths, c \in Contents : add(f, c)

NextStage == DoStageAdd

SpecStage == Init /\ [][NextStage]_vars

----------------------------------------------------------------------------
(* Specification of two repositories side by side *)

\* the commit graph both repositories start from: one root commit
TwinRoot == MakeCommit(<< StagedFileFor(None, EmptyDict, <<"a">>, <<"c">>) >>,
                       None, "main", <<"m">>, <<"u">>, 0)
TwinGraph == [k \in {TwinRoot.id} |-> TwinRoot]

TwinCalls == [ message : TwinMessages, timestamp : TwinTimestamps,
               author_email : TwinAuthors, head : {None, TwinRoot.id} ]

CallFields == {"message", "timestamp", "author_email", "head"}
DifferingFields(c1, c2) ==
  { f \in CallFields :
      \/ f = "message"      /\ c1.message # c2.message
      \/ f = "timestamp"    /\ c1.timestamp # c2.timestamp
      \/ f = "author_email" /\ c1.author_email # c2.author_email
      \/ f = "head"         /\ c1.head # c2.head }

TwinRepo(call) == [ staging_stack |-> << >>, call |-> call, commit |-> None ]

InitId ==
  /\ RepoInit
  /\ \E c1 \in TwinCalls, c2 \in TwinCalls :
       /\ Cardinality(DifferingFields(c1, c2)) <= 1
       /\ twin = << TwinRepo(c1), TwinRepo(c2) >>

\* add(f, c) on repository i
TwinAdd(i, filename, content) ==
  /\ twin[1].commit = None /\ twin[2].commit = None
  /\ twin' = [twin EXCEPT ![i].staging_stack =
                StackAfterAdd(@, StagedFileFor(twin[i].call.head, TwinGraph,
                                               filename, content))]
  /\ UNCHANGED <<repo_vars, pr_vars, ret, mgr_vars, readers>>

\* commit(message, author_email) on both repositories
TwinCommit ==
  /\ twin[1].commit = None /\ twin[2].commit = None
  /\ ~CommitRejects(twin[1].staging_stack)
  /\ ~CommitRejects(twin[2].staging_stack)
  /\ twin' = [i \in {1, 2} |->
                [twin[i] EXCEPT
                   !.commit = MakeCommit(twin[i].staging_stack, twin[i].call.head,
                                         "main", twin[i].call.message,
                                         twin[i].call.author_email,
                                         twin[i].call.timestamp),
                   !.staging_stack = << >>]]
  /\ UNCHANGED <<repo_vars, pr_vars, ret, mgr_vars, readers>>

DoTwinAdd == \E i \in {1, 2}, f \in TwinPaths, c \in TwinContents : TwinAdd(i, f, c)

DoTwinCommit == TwinCommit

NextId ==
  \/ DoTwinAdd
  \/ DoTwinCommit

SpecId == InitId /\ [][NextId]_vars

----------------------------------------------------------------------------
(* Queue, front first *)

\* Queue.enqueue: the new node goes behind rear
Enqueue_replace(q, x) == << x >>
Enqueue(q, x) == Append(q, x)
\* return self.front.data if self.front else None
Peek_rear(q) == IF q = << >> THEN None ELSE q[Len(q)]
Peek(q) == IF q = << >> THEN None ELSE Head(q)

\* list_pull_requests: dequeue every element, append it to result, enqueue it
\* on temp_queue
RECURSIVE ListDrain(_, _, _)
ListDrain(q, result, temp_queue) ==
  IF IsEmpty(q) THEN [result |-> result, temp_queue |-> temp_queue]
  ELSE ListDrain(Tail(q), Append(result, Head(q)), Enqueue(temp_queue, Head(q)))

\* while not temp_queue.is_empty(): q.enqueue(temp_queue.dequeue())
RECURSIVE RestoreQueue(_, _)
RestoreQueue_dropped(temp_queue, q) == q
RestoreQueue(temp_queue, q) ==
  IF IsEmpty(temp_queue) THEN q
  ELSE RestoreQueue(Tail(temp_queue), Enqueue(q, Head(temp_queue)))

----------------------------------------------------------------------------
(* The pull requests of Repository *)

\* A PullRequest object is held by the queue and by pr_map at once: pr_map
\* keeps the object under its id, pull_requests keeps the ids in queue order.

\* f"PR-{self.pr_counter}"
PrId(n) == <<"P", "R", "-">> \o << ToString(n) >>
PrNumber(id) == CHOOSE n \in 1..(MaxPRs + 1) : PrId(n) = id

Range(seq) == { seq[i] : i \in DOMAIN seq }

\* [c for c in source_commits if c not in target_commits]
UniqueCommits_all(source_commits, target_commits) == source_commits
UniqueCommits(source_commits, target_commits) ==
  SelectSeq(source_commits, LAMBDA c : c \notin Range(target_commits))

\* modified_files.update(self.commits[commit_id].changes.keys())
ModifiedFiles(cmts, unique_commits) ==
  UNION { OrdKeys(cmts[unique_commits[i]].changes) : i \in DOMAIN unique_commits }

\* if not unique_commits: raise
CreateRejects_never(unique_commits) == FALSE
CreateRejects(unique_commits) == unique_commits = << >>

\* self.pr_counter += 1
CounterAfterCreate(n) == n + 1

PullRequest(id, title, description, author, created_at, source_branch, target_branch, commit_ids, modified_files) ==
  [ id |-> id, title |-> title, description |-> description,
    author |-> author, created_at |-> created_at,
    source_branch |-> source_branch, target_branch |-> target_branch,
    commit_ids |-> commit_ids, modified_files |-> modified_files,
    reviewers |-> {}, closed_at |-> None, merged_at |-> None,
    status |-> "open", tags |-> {} ]

create_pull_request(title, description, source_branch, target_branch, author, now) ==
  LET args == <<title, description, source_branch, target_branch, author>>
      fail(e) == /\ ret' = [op |-> "create_pull_request", args |-> args,
                            err |-> e, val |-> None]
                 /\ UNCHANGED <<repo_vars, pr_vars, side_vars>>
  IN
  IF source_branch \notin DOMAIN branches THEN fail(ErrSourceMissing)
  ELSE IF target_branch \notin DOMAIN branches THEN fail(ErrTargetMissing)
  ELSE
    LET source_commits == get_branch_commits(commits, branches, source_branch).ids
        target_commits == get_branch_commits(commits, branches, target_branch).ids
        unique_commits == UniqueCommits(source_commits, target_commits)
    IN
    IF CreateRejects(unique_commits) THEN fail(ErrNoChanges)
    ELSE
      LET pr_id == PrId(pr_counter')
          pr == PullRequest(pr_id, title, description, author, now,
                            source_branch, target_branch, unique_commits,
                            ModifiedFiles(commits, unique_commits))
      IN  /\ pr_counter' = CounterAfterCreate(pr_counter)
          /\ pull_requests' = Enqueue(pull_requests, pr_id)
          /\ pr_map' = DictSet(pr_map, pr_id, pr)
          /\ ret' = [op |-> "create_pull_request", args |-> args,
                     err |-> Ok, val |-> pr_id]
          /\ UNCHANGED <<repo_vars, side_vars>>

\* self.pr_map.get(pr_id)
get_pull_request(map, pr_id) == IF pr_id \in DOMAIN map THEN map[pr_id] ELSE None

\* if pr.status != "open": raise
NotOpen_never(pr) == FALSE
NotOpen(pr) == pr.status # "open"

review_pull_request(pr_id, reviewer) ==
  LET pr == get_pull_request(pr_map, pr_id)
      fail(e) == /\ ret' = [op |-> "review_pull_request",
                            args |-> <<pr_id, reviewer>>, err |-> e, val |-> None]
                 /\ UNCHANGED <<repo_vars, pr_vars, side_vars>>
  IN  IF pr = None THEN fail(ErrPRMissing)
      ELSE IF NotOpen(pr) THEN fail(ErrPRNotOpen)
      ELSE /\ pr_map' = [pr_map EXCEPT ![pr_id].reviewers = @ \cup {reviewer}]
           /\ ret' = [op |-> "review_pull_request",
                      args |-> <<pr_id, reviewer>>, err |-> Ok, val |-> None]
           /\ UNCHANGED <<repo_vars, pull_requests, pr_counter, side_vars>>

\* approve, reject and cancel: the same two checks, then
\* pr.status = status; pr.closed_at = datetime.now()
ClosedPR_untimed(pr, status_, now) == [pr EXCEPT !.status = status_]
ClosedPR(pr, status_, now) == [pr EXCEPT !.status = status_, !.closed_at = now]

ClosePullRequest(op, pr_id, status_, now) ==
  LET pr == get_pull_request(pr_map, pr_id)
      fail(e) == /\ ret' = [op |-> op, args |-> <<pr_id>>, err |-> e, val |-> None]
                 /\ UNCHANGED <<repo_vars, pr_vars, side_vars>>
  IN  IF pr = None THEN fail(ErrPRMissing)
      ELSE IF NotOpen(pr) THEN fail(ErrPRNotOpen)
      ELSE /\ pr_map' = [pr_map EXCEPT ![pr_id] = ClosedPR(pr, status_, now)]
           /\ ret' = [op |-> op, args |-> <<pr_id>>, err |-> Ok, val |-> None]
           /\ UNCHANGED <<repo_vars, pull_requests, pr_counter, side_vars>>

approve_pull_request(pr_id, now) ==
  ClosePullRequest("approve_pull_request", pr_id, "approved", now)

reject_pull_request(pr_id, now) ==
  ClosePullRequest("reject_pull_request", pr_id, "rejected", now)

cancel_pull_request(pr_id, now) ==
  ClosePullRequest("cancel_pull_request", pr_id, "cancelled", now)

\* returns the objects of the queue, here their ids
list_pull_requests ==
  LET d == ListDrain(pull_requests, << >>, << >>)
  IN  /\ pull_requests' = RestoreQueue(d.temp_queue, << >>)
      /\ ret' = [op |-> "list_pull_requests", args |-> << >>, err |-> Ok,
                 val |-> d.result]
      /\ UNCHANGED <<repo_vars, pr_counter, pr_map, side_vars>>

get_next_pull_request ==
  /\ ret' = [op |-> "get_next_pull_request", args |-> << >>, err |-> Ok,
             val |-> Peek(pull_requests)]
  /\ UNCHANGED <<repo_vars, pr_vars, side_vars>>

\* pr.tags.add(tag)
TaggedPR_replaced(pr, tag) == [pr EXCEPT !.tags = {tag}]
TaggedPR(pr, tag) == [pr EXCEPT !.tags = @ \cup {tag}]

tag_pull_request(pr_id, tag) ==
  LET pr == get_pull_request(pr_map, pr_id)
  IN  IF pr = None
      THEN /\ ret' = [op |-> "tag_pull_request", args |-> <<pr_id, tag>>,
                      err |-> ErrPRMissing, val |-> None]
           /\ UNCHANGED <<repo_vars, pr_vars, side_vars>>
      ELSE /\ pr_map' = [pr_map EXCEPT ![pr_id] = TaggedPR(pr, tag)]
           /\ ret' = [op |-> "tag_pull_request", args |-> <<pr_id, tag>>,
                      err |-> Ok, val |-> None]
           /\ UNCHANGED <<repo_vars, pull_requests, pr_counter, side_vars>>

\* self.pull_requests.clear(); self.pr_map.clear()
CounterAfterClear_reset(n) == 0
CounterAfterClear(n) == n

\* self.pr_map.clear()
MapAfterClear_kept(map) == map
MapAfterClear(map) == EmptyDict

clear_pull_requests ==
  /\ pull_requests' = << >>
  /\ pr_map' = MapAfterClear(pr_map)
  /\ pr_counter' = CounterAfterClear(pr_counter)
  /\ ret' = [op |-> "clear_pull_requests", args |-> << >>, err |-> Ok, val |-> None]
  /\ UNCHANGED <<repo_vars, side_vars>>

----------------------------------------------------------------------------
(* Specification of the pull requests of one repository *)

\* add a.txt, commit "first" on main, branch x, checkout x, add b.txt, commit
\* "second"
FirstCommit ==
  MakeCommit(<< StagedFileFor(None, EmptyDict, <<"a">>, <<"c">>) >>,
             None, "main", <<"m">>, <<"u">>, 0)
SecondCommit ==
  MakeCommit(<< StagedFileFor(FirstCommit.id,
                              [k \in {FirstCommit.id} |-> FirstCommit],
                              <<"b">>, <<"c">>) >>,
             FirstCommit.id, "x", <<"n">>, <<"u">>, 0)

InitPR ==
  /\ staging_stack = << >>
  /\ commits = [k \in {FirstCommit.id, SecondCommit.id} |->
                  IF k = FirstCommit.id THEN FirstCommit ELSE SecondCommit]
  /\ current_branch = "x"
  /\ branches = [b \in {"main", "x"} |->
                   IF b = "main" THEN FirstCommit.id ELSE SecondCommit.id]
  /\ head = SecondCommit.id
  /\ working_directory = [f \in {<<"a">>, <<"b">>} |-> <<"c">>]
  /\ detached_head = FALSE
  /\ pull_requests = << >>
  /\ pr_counter = 0
  /\ pr_map = EmptyDict
  /\ ret = [op |-> "init", args |-> << >>, err |-> Ok, val |-> None]
  /\ twin = << >>
  /\ Idle

PRIds == { PrId(n) : n \in 1..MaxPRs }

DoCreate ==
  /\ pr_counter < MaxPRs
  /\ \E t \in Titles, d \in Descriptions, s \in PRBranchNames,
        g \in PRBranchNames, a \in Authors, now \in CreatedTimes :
       create_pull_request(t, d, s, g, a, now)
DoReview == \E id \in PRIds, r \in Reviewers : review_pull_request(id, r)
DoApprove == \E id \in PRIds, now \in ClosedTimes : approve_pull_request(id, now)
DoReject == \E id \in PRIds, now \in ClosedTimes : reject_pull_request(id, now)
DoCancel == \E id \in PRIds, now \in ClosedTimes : cancel_pull_request(id, now)
DoList == list_pull_requests
DoNext == get_next_pull_request
DoTag == \E id \in PRIds, g \in Tags : tag_pull_request(id, g)
DoClear == clear_pull_requests

NextPR ==
  \/ DoCreate
  \/ DoReview
  \/ DoApprove
  \/ DoReject
  \/ DoCancel
  \/ DoList
  \/ DoNext
  \/ DoTag
  \/ DoClear

SpecPR == InitPR /\ [][NextPR]_vars

----------------------------------------------------------------------------
(* Specification of one pull request under tag, review and the closing calls *)

\* the repository of InitPR after create_pull_request("t", "d", "x", "main", "u")
InitTag ==
  /\ staging_stack = << >>
  /\ commits = [k \in {FirstCommit.id, SecondCommit.id} |->
                  IF k = FirstCommit.id THEN FirstCommit ELSE SecondCommit]
  /\ current_branch = "x"
  /\ branches = [b \in {"main", "x"} |->
                   IF b = "main" THEN FirstCommit.id ELSE SecondCommit.id]
  /\ head = SecondCommit.id
  /\ working_directory = [f \in {<<"a">>, <<"b">>} |-> <<"c">>]
  /\ detached_head = FALSE
  /\ pull_requests = << PrId(1) >>
  /\ pr_counter = 1
  /\ pr_map = [k \in {PrId(1)} |->
                 PullRequest(PrId(1), <<"t">>, <<"d">>, <<"u">>, <<0>>, "x", "main",
                             << SecondCommit.id >>, { <<"b">> })]
  /\ ret = [op |-> "create_pull_request",
            args |-> << <<"t">>, <<"d">>, "x", "main", <<"u">> >>,
            err |-> Ok, val |-> PrId(1)]
  /\ twin = << >>
  /\ Idle

DoTagText == \E id \in PRIds, g \in TagTexts : tag_pull_request(id, g)

NextTag ==
  \/ DoTagText
  \/ DoReview
  \/ DoApprove
  \/ DoReject
  \/ DoCancel

SpecTag == InitTag /\ [][NextTag]_vars

----------------------------------------------------------------------------
(* Specification of create_pull_request over repositories of several shapes *)

\* the commit that add(filename, content); commit(message) makes on branch cur
\* with head hd in the graph cmts
CommitOf(cmts, hd, cur, filename, content, message) ==
  MakeCommit(<< StagedFileFor(hd, cmts, filename, content) >>,
             hd, cur, message, <<"u">>, 0)

GraphOf(S) == [k \in { c.id : c \in S } |-> CHOOSE c \in S : c.id = k]

\* checkout x; add a d; commit, after FirstCommit: the second commit rewrites
\* a.txt
SecondOnA ==
  CommitOf(GraphOf({FirstCommit}), FirstCommit.id, "x", <<"a">>, <<"d">>, <<"n">>)
\* a third commit on x after SecondCommit
ThirdCommit ==
  CommitOf(GraphOf({FirstCommit, SecondCommit}), SecondCommit.id, "x",
           <<"a">>, <<"d">>, <<"m">>)
\* a second commit on main while x is at SecondCommit
MainCommit ==
  CommitOf(GraphOf({FirstCommit}), FirstCommit.id, "main", <<"a">>, <<"d">>, <<"n">>)

WD(a, b) ==
  [f \in (IF a = None THEN {} ELSE {<<"a">>}) \cup
         (IF b = None THEN {} ELSE {<<"b">>}) |-> IF f = <<"a">> THEN a ELSE b]

RepoShape(cmts, brs, cur, wd) ==
  [commits |-> GraphOf(cmts), branches |-> brs, current_branch |-> cur,
   working_directory |-> wd]

\* the repository after
\*   1 nothing
\*   2 branch x; add a; commit
\*   3 add a; commit; branch x
\*   4 add a; commit; branch x; checkout x; add a; commit
\*   5 add a; commit; branch x; checkout x; add b; commit
\*   6 as 5, then add a; commit
\*   7 as 5, then checkout main; add a; commit
RepoShapes ==
  { RepoShape({}, [b \in {"main"} |-> None], "main", WD(None, None)),
    RepoShape({FirstCommit},
              [b \in {"main", "x"} |-> IF b = "main" THEN FirstCommit.id ELSE None],
              "main", WD(<<"c">>, None)),
    RepoShape({FirstCommit}, [b \in {"main", "x"} |-> FirstCommit.id],
              "main", WD(<<"c">>, None)),
    RepoShape({FirstCommit, SecondOnA},
              [b \in {"main", "x"} |->
                 IF b = "main" THEN FirstCommit.id ELSE SecondOnA.id],
              "x", WD(<<"d">>, None)),
    RepoShape({FirstCommit, SecondCommit},
              [b \in {"main", "x"} |->
                 IF b = "main" THEN FirstCommit.id ELSE SecondCommit.id],
              "x", WD(<<"c">>, <<"c">>)),
    RepoShape({FirstCommit, SecondCommit, ThirdCommit},
              [b \in {"main", "x"} |->
                 IF b = "main" THEN FirstCommit.id ELSE ThirdCommit.id],
              "x", WD(<<"d">>, <<"c">>)),
    RepoShape({FirstCommit, SecondCommit, MainCommit},
              [b \in {"main", "x"} |->
                 IF b = "main" THEN MainCommit.id ELSE SecondCommit.id],
              "main", WD(<<"d">>, None)) }

InitCreate ==
  /\ \E r \in RepoShapes :
       /\ commits = r.commits
       /\ branches = r.branches
       /\ current_branch = r.current_branch
       /\ head = r.branches[r.current_branch]
       /\ working_directory = r.working_directory
  /\ staging_stack = << >>
  /\ detached_head = FALSE
  /\ pull_requests = << >>
  /\ pr_counter = 0
  /\ pr_map = EmptyDict
  /\ ret = [op |-> "init", args |-> << >>, err |-> Ok, val |-> None]
  /\ twin = << >>
  /\ Idle

NextCreate ==
  \/ DoCreate
  \/ DoClear

SpecCreate == InitCreate /\ [][NextCreate]_vars

----------------------------------------------------------------------------
(* Specification of add over repositories of several shapes *)

ShapePaths == { <<"a">>, <<"b">> }

DoShapeAdd == \E f \in ShapePaths, c \in Contents : add(f, c)

NextAdd == DoShapeAdd

SpecAdd == InitCreate /\ [][NextAdd]_vars

----------------------------------------------------------------------------
(* Specification of status next to add and commit *)

ViewContents == { <<"c">> }

\* status(): returns the list, leaves the stack it has restored
DoStatus ==
  LET st == status(staging_stack, working_directory)
  IN  /\ staging_stack' = st.staging_stack
      /\ ret' = [op |-> "status", args |-> << >>, err |-> Ok,
                 val |-> st.status_list]
      /\ UNCHANGED <<commits, current_branch, branches, head,
                     working_directory, detached_head>>
      /\ UNCHANGED <<pr_vars, side_vars>>

DoViewAdd == \E f \in ShapePaths, c \in ViewContents : add(f, c)

NextView ==
  \/ DoViewAdd
  \/ DoCommit
  \/ DoStatus

SpecView == Init /\ [][NextView]_vars

----------------------------------------------------------------------------
(* Specification of the repository together with its pull requests *)

DoRefAdd == \E f \in Paths, c \in ViewContents : add(f, c)

\* pull requests between the branches there are
DoRefCreate ==
  /\ pr_counter < MaxPRs
  /\ \E t \in Titles, d \in Descriptions, s \in DOMAIN branches,
        g \in DOMAIN branches, a \in Authors, now \in CreatedTimes :
       create_pull_request(t, d, s, g, a, now)

NextRef ==
  \/ DoRefAdd
  \/ DoCommit
  \/ DoBranch
  \/ DoCheckout
  \/ DoCheckoutCommit
  \/ DoRefCreate

SpecRef == Init /\ [][NextRef]_vars

----------------------------------------------------------------------------
(* Specification of checkout next to add and commit, over two paths *)

NextWork ==
  \/ DoViewAdd
  \/ DoCommit
  \/ DoCheckout

SpecWork == Init /\ [][NextWork]_vars

----------------------------------------------------------------------------
(* CheckoutCommand.execute('-b', name) on the selected repository *)

\* repo.branch(branch_name), then repo.checkout(branch_name) on what branch
\* left; a ValueError of either ends the command with the error message
checkout_b(branch_name) ==
  IF branch_name \in DOMAIN branches
  THEN /\ ret' = [op |-> "checkout -b", args |-> <<branch_name>>,
                  err |-> ErrBranchExists, val |-> None]
       /\ UNCHANGED <<repo_vars, pr_vars, side_vars>>
  ELSE LET branched == BranchesAfterBranch(branches, branch_name, head)
       IN  IF CheckoutRejects(staging_stack)
           THEN /\ branches' = branched
                /\ ret' = [op |-> "checkout -b", args |-> <<branch_name>>,
                           err |-> ErrUncommittedBranch, val |-> None]
                /\ UNCHANGED <<staging_stack, commits, current_branch, head,
                               working_directory, detached_head>>
                /\ UNCHANGED <<pr_vars, side_vars>>
           ELSE /\ branches' = branched
                /\ current_branch' = branch_name
                /\ head' = HeadAfterCheckout(branched, head, branch_name)
                /\ detached_head' = FALSE
                /\ working_directory' =
                     WorkingDirectoryAfterCheckout(commits, head', working_directory)
                /\ staging_stack' = << >>
                /\ ret' = [op |-> "checkout -b", args |-> <<branch_name>>,
                           err |-> Ok, val |-> None]
                /\ UNCHANGED commits
                /\ UNCHANGED <<pr_vars, side_vars>>

DoCheckoutB == \E n \in PRBranchNames : checkout_b(n)

NextCli ==
  \/ DoRefAdd
  \/ DoCommit
  \/ DoCheckoutB

SpecCli == Init /\ [][NextCli]_vars

----------------------------------------------------------------------------
(* Specification of reader calls that run at the same time *)

\* The repository of InitPR after create_pull_request(x -> main) twice,
\* add(a, d) and add(b, d).  Each thread runs one of status, get_commit_history,
\* list_pull_requests and get_next_pull_request; a step of a thread is one
\* iteration of a loop of the call, with its test and its pops and pushes.
StagedAtStart ==
  LET g == [k \in {FirstCommit.id, SecondCommit.id} |->
              IF k = FirstCommit.id THEN FirstCommit ELSE SecondCommit]
      s1 == StackAfterAdd(<< >>, StagedFileFor(SecondCommit.id, g, <<"a">>, <<"d">>))
  IN  StackAfterAdd(s1, StagedFileFor(SecondCommit.id, g, <<"b">>, <<"d">>))

QueueAtStart == << PrId(1), PrId(2) >>

Threads == 1..MaxReaders

\* the locals of a call that has not started
NewReader(kind) ==
  [kind |-> kind, pc |-> "begin", result |-> << >>, temp |-> << >>,
   current |-> None]

InitReaders ==
  /\ staging_stack = StagedAtStart
  /\ commits = [k \in {FirstCommit.id, SecondCommit.id} |->
                  IF k = FirstCommit.id THEN FirstCommit ELSE SecondCommit]
  /\ current_branch = "x"
  /\ branches = [b \in {"main", "x"} |->
                   IF b = "main" THEN FirstCommit.id ELSE SecondCommit.id]
  /\ head = SecondCommit.id
  /\ working_directory = [f \in {<<"a">>, <<"b">>} |-> <<"d">>]
  /\ detached_head = FALSE
  /\ pull_requests = QueueAtStart
  /\ pr_counter = 2
  /\ pr_map = [k \in {PrId(1), PrId(2)} |->
                 PullRequest(k, <<"t">>, <<"d">>, <<"u">>, <<0>>, "x", "main",
                             << SecondCommit.id >>, { <<"b">> })]
  /\ ret = [op |-> "add", args |-> << <<"b">>, <<"d">> >>, err |-> Ok, val |-> 0]
  /\ twin = << >>
  /\ repositories = << >>
  /\ current_repository = None
  /\ \E kinds \in [Threads -> ReaderKinds] :
       readers = [p \in Threads |-> NewReader(kinds[p])]

\* the files of the working directory status reports after the staged ones
UnstagedOf(status_list, wd) ==
  LET staged_files == { status_list[i].path : i \in DOMAIN status_list }
      rest == SortedSeq({ <<f, wd[f]>> : f \in (DOMAIN wd) \ staged_files })
  IN  [i \in DOMAIN rest |-> FileStatus(rest[i][1], "new", rest[i][2])]

\* one step of status() in thread p
StatusStep(p) ==
  LET r == readers[p]
  IN  /\ r.kind = "status"
      /\ \/ /\ r.pc = "begin"
            /\ readers' = [readers EXCEPT ![p].pc = "drain"]
            /\ UNCHANGED staging_stack
         \/ /\ r.pc = "drain" /\ ~IsEmpty(staging_stack)
            /\ staging_stack' = Tail(staging_stack)
            /\ readers' = [readers EXCEPT
                 ![p].result = Append(@, FileStatus(Head(staging_stack).path,
                                                    Head(staging_stack).status,
                                                    Head(staging_stack).content)),
                 ![p].temp = Push(@, Head(staging_stack))]
         \/ /\ r.pc = "drain" /\ IsEmpty(staging_stack)
            /\ readers' = [readers EXCEPT ![p].pc = "restore"]
            /\ UNCHANGED staging_stack
         \/ /\ r.pc = "restore" /\ ~IsEmpty(r.temp)
            /\ staging_stack' = Push(staging_stack, Head(r.temp))
            /\ readers' = [readers EXCEPT ![p].temp = Tail(@)]
         \/ /\ r.pc = "restore" /\ IsEmpty(r.temp)
            /\ readers' = [readers EXCEPT
                 ![p].result = @ \o UnstagedOf(@, working_directory),
                 ![p].pc = "done"]
            /\ UNCHANGED staging_stack
      /\ UNCHANGED <<commits, current_branch, branches, head,
                     working_directory, detached_head>>
      /\ UNCHANGED <<pr_vars, ret, twin, mgr_vars>>

\* one step of list_pull_requests() in thread p
ListStep(p) ==
  LET r == readers[p]
  IN  /\ r.kind = "list"
      /\ \/ /\ r.pc = "begin"
            /\ readers' = [readers EXCEPT ![p].pc = "drain"]
            /\ UNCHANGED pull_requests
         \/ /\ r.pc = "drain" /\ ~IsEmpty(pull_requests)
            /\ pull_requests' = Tail(pull_requests)
            /\ readers' = [readers EXCEPT
                 ![p].result = Append(@, Head(pull_requests)),
                 ![p].temp = Enqueue(@, Head(pull_requests))]
         \/ /\ r.pc = "drain" /\ IsEmpty(pull_requests)
            /\ readers' = [readers EXCEPT ![p].pc = "restore"]
            /\ UNCHANGED pull_requests
         \/ /\ r.pc = "restore" /\ ~IsEmpty(r.temp)
            /\ pull_requests' = Enqueue(pull_requests, Head(r.temp))
            /\ readers' = [readers EXCEPT ![p].temp = Tail(@)]
         \/ /\ r.pc = "restore" /\ IsEmpty(r.temp)
            /\ readers' = [readers EXCEPT ![p].pc = "done"]
            /\ UNCHANGED pull_requests
      /\ UNCHANGED <<repo_vars, pr_counter, pr_map, ret, twin, mgr_vars>>

\* one step of get_commit_history() in thread p
LogStep(p) ==
  LET r == readers[p]
  IN  /\ r.kind = "log"
      /\ \/ /\ r.pc = "begin"
            /\ readers' = [readers EXCEPT ![p].current = head, ![p].pc = "walk"]
         \/ /\ r.pc = "walk" /\ r.current # None
            /\ readers' = [readers EXCEPT
                 ![p].result = Append(@, r.current),
                 ![p].current = commits[r.current].parent_id]
         \/ /\ r.pc = "walk" /\ r.current = None
            /\ readers' = [readers EXCEPT ![p].pc = "done"]
      /\ UNCHANGED <<repo_vars, pr_vars, ret, twin, mgr_vars>>

\* get_next_pull_request() in thread p
NextStep(p) ==
  LET r == readers[p]
  IN  /\ r.kind = "next"
      /\ r.pc = "begin"
      /\ readers' = [readers EXCEPT ![p].result = Peek(pull_requests),
                                    ![p].pc = "done"]
      /\ UNCHANGED <<repo_vars, pr_vars, ret, twin, mgr_vars>>

NextReaders ==
  \/ \E p \in Threads : StatusStep(p)
  \/ \E p \in Threads : ListStep(p)
  \/ \E p \in Threads : LogStep(p)
  \/ \E p \in Threads : NextStep(p)

SpecReaders == InitReaders /\ [][NextReaders]_vars

----------------------------------------------------------------------------
(* LinkedList, head first, and RepositoryManager *)

\* Repository(name, path): the class defines no __eq__, two objects are equal
\* when they are the same object; oid is the identity of the object
RepositoryObject(oid, name, path) == [oid |-> oid, name |-> name, path |-> path]

\* lambda r: r.name == name, a function object that closes over name
NameTest(name) == [lambda |-> "r.name == name", name |-> name]

append(list, data) == Append(list, data)

\* the first node with current.data == data, as Node(data), or None
find(list, data) ==
  IF \E i \in DOMAIN list : list[i] = data
  THEN [data |-> list[CHOOSE i \in DOMAIN list :
                        /\ list[i] = data
                        /\ \A j \in DOMAIN list : list[j] = data => i <= j]]
  ELSE None

\* unlinks the first node with data == data
remove(list, data) ==
  IF \E i \in DOMAIN list : list[i] = data
  THEN LET k == CHOOSE i \in DOMAIN list :
                  /\ list[i] = data
                  /\ \A j \in DOMAIN list : list[j] = data => i <= j
       IN  SubSeq(list, 1, k - 1) \o SubSeq(list, k + 1, Len(list))
  ELSE list

to_list(list) == list

\* an identity no listed object has
NewOid(list) ==
  CHOOSE n \in 1..(Len(list) + 1) : \A i \in DOMAIN list : list[i].oid # n

create_repository(name, path) ==
  LET repo == RepositoryObject(NewOid(repositories), name, path)
  IN  /\ repositories' = append(repositories, repo)
      /\ current_repository' = repo
      /\ ret' = [op |-> "create_repository", args |-> <<name, path>>,
                 err |-> Ok, val |-> repo]
      /\ UNCHANGED <<repo_vars, pr_vars, twin, readers>>

switch_repository(name) ==
  LET node == find(repositories, NameTest(name))
  IN  IF node = None
      THEN /\ ret' = [op |-> "switch_repository", args |-> <<name>>,
                      err |-> ErrRepoMissing, val |-> None]
           /\ UNCHANGED <<repo_vars, pr_vars, side_vars>>
      ELSE /\ current_repository' = node.data
           /\ ret' = [op |-> "switch_repository", args |-> <<name>>,
                      err |-> Ok, val |-> None]
           /\ UNCHANGED <<repo_vars, pr_vars, twin, repositories, readers>>

list_repositories ==
  LET l == to_list(repositories)
  IN  /\ ret' = [op |-> "list_repositories", args |-> << >>, err |-> Ok,
                 val |-> [i \in DOMAIN l |-> l[i].name]]
      /\ UNCHANGED <<repo_vars, pr_vars, side_vars>>

\* next((r for r in self.repositories.to_list() if r.name == name), None)
FirstNamed(list, name) ==
  IF \E i \in DOMAIN list : list[i].name = name
  THEN list[CHOOSE i \in DOMAIN list :
              /\ list[i].name = name
              /\ \A j \in DOMAIN list : list[j].name = name => i <= j]
  ELSE None

delete_repository(name) ==
  LET repo == FirstNamed(to_list(repositories), name)
  IN  IF repo = None
      THEN /\ ret' = [op |-> "delete_repository", args |-> <<name>>,
                      err |-> ErrRepoMissing, val |-> None]
           /\ UNCHANGED <<repo_vars, pr_vars, side_vars>>
      ELSE /\ repositories' = remove(repositories, repo)
           /\ current_repository' =
                IF current_repository # None /\ current_repository.name = name
                THEN None ELSE current_repository
           /\ ret' = [op |-> "delete_repository", args |-> <<name>>,
                      err |-> Ok, val |-> None]
           /\ UNCHANGED <<repo_vars, pr_vars, twin, readers>>

----------------------------------------------------------------------------
(* Specification of the repository manager *)

DoCreateRepository ==
  /\ Len(repositories) < MaxRepos
  /\ \E n \in RepoNames, p \in RepoPaths : create_repository(n, p)
DoSwitchRepository == \E n \in RepoNames : switch_repository(n)
DoListRepositories == list_repositories
DoDeleteRepository == \E n \in RepoNames : delete_repository(n)

NextManager ==
  \/ DoCreateRepository
  \/ DoSwitchRepository
  \/ DoListRepositories
  \/ DoDeleteRepository

SpecManager == Init /\ [][NextManager]_vars

----------------------------------------------------------------------------
(* Properties of the repository (Spec) *)

CommitSucceeded == ret.op = "commit" /\ ret.err = Ok

\* C1: whenever the repository is not in detached-head mode, the pointer of
\* the current branch equals head.
C1_CurrentBranchIsHead ==
  ~detached_head => branches[current_branch] = head

\* a checkout has moved head to a branch whose commit is not the tip of main
C1_Witness ==
  /\ ret.op = "checkout" /\ ret.err = Ok
  /\ ~detached_head
  /\ current_branch = "x"
  /\ head # None
  /\ branches["main"] # branches["x"]

\* C2: commit on an empty staging area fails with the empty-staging error and
\* leaves the commit graph, head, every branch pointer and the working
\* directory as they were.
C2_EmptyCommitFails ==
  [][ (ret'.op = "commit" /\ IsEmpty(staging_stack))
        => /\ ret'.err = ErrNothingToCommit
           /\ commits' = commits
           /\ head' = head
           /\ branches' = branches
           /\ working_directory' = working_directory ]_vars

\* a commit has been refused in a repository that has commits and files
C2_Witness ==
  /\ ret.op = "commit" /\ ret.err = ErrNothingToCommit
  /\ head # None
  /\ DOMAIN working_directory # {}

\* C3: a successful commit stores a commit whose parent is the head before the
\* call, sets head to its id, advances the current branch's pointer to that id
\* exactly when the repository is not detached, and leaves staging empty.
C3_CommitEffect ==
  [][ (ret'.op = "commit" /\ ret'.err = Ok)
        => /\ head' = ret'.val
           /\ head' \in DOMAIN commits'
           /\ commits'[head'].id = head'
           /\ commits'[head'].parent_id = head
           /\ ~detached_head => branches'[current_branch] = head'
           /\ detached_head => branches'[current_branch] = branches[current_branch]
           /\ IsEmpty(staging_stack') ]_vars

\* a commit has succeeded in detached-head mode, on top of an earlier commit
C3_Witness ==
  /\ CommitSucceeded
  /\ detached_head
  /\ commits[head].parent_id # None
  /\ branches[current_branch] # head

\* C4: a branch pointer changes only by a successful commit made while that
\* branch is the current branch and the repository is not detached; no branch
\* is removed.
C4_OnlyCurrentBranchMoves ==
  [][ \A b \in DOMAIN branches :
        /\ b \in DOMAIN branches'
        /\ branches'[b] # branches[b]
             => /\ ret'.op = "commit" /\ ret'.err = Ok
                /\ b = current_branch
                /\ ~detached_head ]_vars

\* a commit has been made on main after branch x was created at a commit,
\* and x still points at the commit it was created at
C4_Witness ==
  /\ CommitSucceeded
  /\ "x" \in DOMAIN branches
  /\ current_branch = "main"
  /\ branches["x"] # None
  /\ branches["x"] # head
  /\ commits[head].parent_id = branches["x"]

\* C5: the commit graph is append-only and commits are immutable: a stored id
\* stays stored, with the same message, author, timestamp, parent, changes map
\* and branch name.
C5_CommitsImmutable ==
  [][ \A id \in DOMAIN commits :
        /\ id \in DOMAIN commits'
        /\ commits'[id].message = commits[id].message
        /\ commits'[id].author_email = commits[id].author_email
        /\ commits'[id].timestamp = commits[id].timestamp
        /\ commits'[id].parent_id = commits[id].parent_id
        /\ DictOf(commits'[id].changes) = DictOf(commits[id].changes)
        /\ commits'[id].branch = commits[id].branch ]_vars

\* C6: commit never overwrites a stored commit: a call whose computed id is
\* already a key of the commit graph does not succeed.
C6_NoOverwrite ==
  [][ (ret'.op = "commit" /\ ret'.err = Ok) => ret'.val \notin DOMAIN commits ]_vars

NoDuplicates(seq) == \A i, j \in DOMAIN seq : seq[i] = seq[j] => i = j

\* the commits reachable from c by parent links, as a least fixed point
RECURSIVE ParentClosure(_)
ParentClosure(S) ==
  LET step == S \cup { commits[x].parent_id : x \in S \cap DOMAIN commits }
      S2 == step \ {None}
  IN  IF S2 = S THEN S ELSE ParentClosure(S2)

Ancestors(c) == ParentClosure({c} \ {None})

\* a terminated walk: it ended on a null parent, visited no commit twice, and
\* every element is followed by its parent
IsLineage(w) ==
  /\ w.current = None
  /\ NoDuplicates(w.ids)
  /\ \A i \in DOMAIN w.ids :
       /\ w.ids[i] \in DOMAIN commits
       /\ commits[w.ids[i]].parent_id =
            (IF i < Len(w.ids) THEN w.ids[i + 1] ELSE None)

\* C7: the parent walk from head and from every branch pointer visits no
\* commit twice and ends on a null parent; log returns exactly the ancestors
\* of head, each commit before its parent, ending with a root commit.
C7_WalksTerminate ==
  /\ \A b \in DOMAIN branches :
       LET w == get_branch_commits(commits, branches, b)
       IN  IsLineage(w) /\ { w.ids[i] : i \in DOMAIN w.ids } = Ancestors(branches[b])
  /\ LET h == get_commit_history(commits, head)
     IN  IsLineage(h) /\ { h.ids[i] : i \in DOMAIN h.ids } = Ancestors(head)

\* head has a history of two commits while another branch ends on the older one
C7_Witness ==
  /\ Len(get_commit_history(commits, head).ids) = 2
  /\ \E b \in DOMAIN branches :
       /\ branches[b] # head
       /\ Len(get_branch_commits(commits, branches, b).ids) = 1

----------------------------------------------------------------------------
(* Properties of the commit id (SpecId) *)

BothCommitted == twin[1].commit # None /\ twin[2].commit # None

\* the staged path/content pairs a commit was made from
PairsOf(c) == { c.changes[i] : i \in DOMAIN c.changes }

\* how many of the inputs of the commit id differ between the two commits
InputsChanged ==
  Cardinality(DifferingFields(twin[1].call, twin[2].call))
    + (IF PairsOf(twin[1].commit) # PairsOf(twin[2].commit) THEN 1 ELSE 0)

\* C8: two commits whose inputs (message, timestamp, parent id, author, set of
\* staged path/content pairs) differ in exactly one input have different ids.
C8_OneInputChangesId ==
  (BothCommitted /\ InputsChanged = 1) => twin[1].commit.id # twin[2].commit.id

\* C9: two commits with identical message, author, parent and timestamp whose
\* staging areas hold the same path/content pairs get identical ids, whatever
\* the order of the add calls and however often a path was staged again.
C9_IdIndependentOfStagingOrder ==
  ( /\ BothCommitted
    /\ DifferingFields(twin[1].call, twin[2].call) = {}
    /\ PairsOf(twin[1].commit) = PairsOf(twin[2].commit) )
  => twin[1].commit.id = twin[2].commit.id

\* both repositories committed the same two pairs, staged in opposite orders
C9_Witness ==
  /\ BothCommitted
  /\ DifferingFields(twin[1].call, twin[2].call) = {}
  /\ PairsOf(twin[1].commit) = PairsOf(twin[2].commit)
  /\ Len(twin[1].commit.changes) = 2
  /\ twin[1].commit.changes # twin[2].commit.changes
  /\ twin[1].commit.id = twin[2].commit.id

----------------------------------------------------------------------------
(* Properties of the staging area (SpecStage) *)

OtherPaths(stack, filename) == SelectSeq(stack, LAMBDA e : e.path # filename)
SamePath(stack, filename) == SelectSeq(stack, LAMBDA e : e.path = filename)

\* C10: the staging area holds at most one entry per path; add(path, content)
\* leaves exactly one entry for path, holding the new content, and keeps every
\* other staged entry in the same relative order.
C10_OneEntryPerPath ==
  [][ /\ NoDuplicates([i \in DOMAIN staging_stack |-> staging_stack[i].path])
      /\ NoDuplicates([i \in DOMAIN staging_stack' |-> staging_stack'[i].path])
      /\ ret'.op = "add"
           => /\ Len(SamePath(staging_stack', ret'.args[1])) = 1
              /\ SamePath(staging_stack', ret'.args[1])[1].content = ret'.args[2]
              /\ OtherPaths(staging_stack', ret'.args[1])
                   = OtherPaths(staging_stack, ret'.args[1]) ]_vars

\* add has replaced the entry of a staged path, next to two other entries,
\* with a content that differs from the one the working directory had
C10_Witness ==
  /\ ret.op = "add"
  /\ ret.val = 1
  /\ Len(staging_stack) >= 3
  /\ staging_stack[1].path = ret.args[1]
  /\ staging_stack[1].content = ret.args[2]

\* ---------------------------------------------------------------------------
\* Switching: checkout, checkout_commit, branch
\* ---------------------------------------------------------------------------

RepoUnchanged == UNCHANGED repo_vars

ChangesOfBranch(brs, cmts, b) ==
  IF brs[b] = None THEN EmptyDict ELSE DictOf(cmts[brs[b]].changes)

\* C12: a successful checkout(b) makes b the current branch, sets head to the
\* pointer of b (possibly none), clears detached-head mode, leaves staging
\* empty and makes the working directory the changes map of the commit of b, or
\* empty when b has none; checkout of an absent name fails with the
\* unknown-branch error and changes nothing.
C12_CheckoutEffect ==
  [][ (ret'.op = "checkout")
        => /\ (ret'.err = Ok)
                => /\ ret'.args[1] \in DOMAIN branches
                   /\ current_branch' = ret'.args[1]
                   /\ head' = branches[ret'.args[1]]
                   /\ detached_head' = FALSE
                   /\ IsEmpty(staging_stack')
                   /\ working_directory' =
                        ChangesOfBranch(branches, commits, ret'.args[1])
           /\ (ret'.args[1] \notin DOMAIN branches)
                => (ret'.err = ErrBranchMissing /\ RepoUnchanged) ]_vars

C12_Witness ==
  /\ ret.op = "checkout"
  /\ ret.err = Ok
  /\ ret.args[1] = "x"
  /\ current_branch = "x"
  /\ head = None
  /\ commits # EmptyDict
  /\ working_directory = EmptyDict

\* what a checkout_commit that got past the unknown-commit check is said to do
DetachesAt(c) ==
  /\ detached_head' = TRUE
  /\ head' = c
  /\ working_directory' = DictOf(commits[c].changes)
  /\ branches' = branches
  /\ current_branch' = current_branch

C14_BranchEffect ==
  [][ (ret'.op = "branch")
        => IF ret'.args[1] \in DOMAIN branches
           THEN ret'.err = ErrBranchExists /\ RepoUnchanged
           ELSE /\ ret'.err = Ok
                /\ DOMAIN branches' = DOMAIN branches \cup {ret'.args[1]}
                /\ branches'[ret'.args[1]] = head
                /\ \A b \in DOMAIN branches : branches'[b] = branches[b]
                /\ UNCHANGED <<current_branch, head, detached_head,
                               staging_stack>> ]_vars

C14_Witness ==
  /\ ret.op = "branch"
  /\ ret.err = Ok
  /\ head # None
  /\ branches[ret.args[1]] = head
  /\ ret.args[1] # current_branch

\* the entries of a status list that come from the staging area: a staged file
\* is reported 'A' or 'M', a file of the working directory "new"
StagedReported(status_list) ==
  { i \in DOMAIN status_list : status_list[i].status # "new" }

----------------------------------------------------------------------------
(* Properties of the pull requests (SpecPR) *)

OnOpenOps == { "review_pull_request", "approve_pull_request",
               "reject_pull_request", "cancel_pull_request" }

\* C16: the status of a tracked pull request changes only from open and only
\* to approved, rejected or cancelled; a review, approve, reject or cancel on
\* a tracked pull request that is not open fails with the not-open error and
\* leaves its status, reviewers and closed timestamp as they were; no status
\* is ever merged.
C16_StatusMachine ==
  [][ /\ \A id \in (DOMAIN pr_map) \cap (DOMAIN pr_map') :
           pr_map'[id].status # pr_map[id].status
             => /\ pr_map[id].status = "open"
                /\ pr_map'[id].status \in {"approved", "rejected", "cancelled"}
      /\ \A id \in DOMAIN pr_map' :
           /\ pr_map'[id].status # "merged"
           /\ id \notin DOMAIN pr_map => pr_map'[id].status = "open"
      /\ (/\ ret'.op \in OnOpenOps
          /\ ret'.args[1] \in DOMAIN pr_map
          /\ pr_map[ret'.args[1]].status # "open")
           => /\ ret'.err = ErrPRNotOpen
              /\ ret'.args[1] \in DOMAIN pr_map'
              /\ pr_map'[ret'.args[1]].status = pr_map[ret'.args[1]].status
              /\ pr_map'[ret'.args[1]].reviewers = pr_map[ret'.args[1]].reviewers
              /\ pr_map'[ret'.args[1]].closed_at = pr_map[ret'.args[1]].closed_at
    ]_vars

C16_Witness ==
  /\ ret.op = "approve_pull_request"
  /\ ret.err = ErrPRNotOpen
  /\ ret.args[1] \in DOMAIN pr_map
  /\ pr_map[ret.args[1]].status = "rejected"
  /\ pr_map[ret.args[1]].reviewers # {}
  /\ pr_map[ret.args[1]].closed_at # None

CreateSucceeded == ret'.op = "create_pull_request" /\ ret'.err = Ok

\* C17: ids are PR-1, PR-2, ... in creation order.  The counter starts at 0,
\* only a successful create changes it, by one, and returns PR-<counter>, so
\* the n-th successful create returns PR-n; the id is greater than every id
\* issued before, tracked or cleared, because none of those exceeds the old
\* counter and the counter never goes down.
C17_SequentialIds ==
  [][ /\ pr_counter' >= pr_counter
      /\ \A id \in DOMAIN pr_map' : PrNumber(id) <= pr_counter'
      /\ IF CreateSucceeded
         THEN /\ pr_counter' = pr_counter + 1
              /\ ret'.val = PrId(pr_counter')
              /\ PrNumber(ret'.val) > pr_counter
              /\ ret'.val \notin DOMAIN pr_map
              /\ ret'.val \notin Range(pull_requests)
         ELSE pr_counter' = pr_counter ]_vars

C17_Witness ==
  /\ ret.op = "create_pull_request" /\ ret.err = Ok
  /\ ret.val = PrId(2)
  /\ pull_requests = << PrId(2) >>
  /\ DOMAIN pr_map = { PrId(2) }

\* C20: list_pull_requests returns every tracked pull request in the order of
\* creation and leaves the queue holding the same pull requests in the same
\* order, so a second call right after returns the same sequence.
C20_ListIsFifoAndKeepsQueue ==
  [][ (ret'.op = "list_pull_requests")
        => /\ Range(ret'.val) = DOMAIN pr_map
           /\ Len(ret'.val) = Cardinality(DOMAIN pr_map)
           /\ \A i, j \in DOMAIN ret'.val :
                i < j => PrNumber(ret'.val[i]) < PrNumber(ret'.val[j])
           /\ ret'.val = pull_requests
           /\ pull_requests' = pull_requests
           /\ pr_map' = pr_map
           /\ (ret.op = "list_pull_requests") => ret'.val = ret.val ]_vars

C20_Witness ==
  /\ ret.op = "list_pull_requests"
  /\ ret.val = << PrId(1), PrId(2) >>
  /\ pull_requests = ret.val
  /\ pr_map[PrId(1)].status # "open"

CloseOps == { "approve_pull_request", "reject_pull_request",
              "cancel_pull_request" }

\* the tracked pull request with the smallest number, none when none is
\* tracked
OldestTracked(map) ==
  IF DOMAIN map = {} THEN None
  ELSE CHOOSE id \in DOMAIN map :
         \A other \in DOMAIN map : PrNumber(id) <= PrNumber(other)

\* C21: get_next_pull_request returns the oldest pull request created since
\* the last clear, none when none is tracked, whatever its status, and removes
\* nothing; approving, rejecting or cancelling a pull request does not change
\* which one is at the front.
C21_NextIsOldestTracked ==
  [][ /\ (ret'.op = "get_next_pull_request")
           => /\ ret'.val = OldestTracked(pr_map)
              /\ UNCHANGED pr_vars
      /\ (ret'.op \in CloseOps)
           => Peek(pull_requests') = Peek(pull_requests) ]_vars

\* next returns PR-1 although PR-1 is closed and PR-2 is open
C21_Witness ==
  /\ ret.op = "get_next_pull_request"
  /\ ret.val = PrId(1)
  /\ pr_map[PrId(1)].status = "approved"
  /\ PrId(2) \in DOMAIN pr_map
  /\ pr_map[PrId(2)].status = "open"

PRWriteOps == OnOpenOps \cup { "tag_pull_request" }

\* an id that was issued and is tracked no more
IssuedAndCleared(id) ==
  PrNumber(id) <= pr_counter /\ id \notin DOMAIN pr_map

\* C22: clear_pull_requests leaves no pull request to list and none at the
\* front, keeps the id counter and does not touch commits, branches, head or
\* staging; right after it list returns no pull request and next returns
\* none, and review, approve, reject, cancel and tag on an id issued before
\* fail with the not-found error.
C22_ClearForgetsEverything ==
  [][ /\ (ret'.op = "clear_pull_requests")
           => /\ pull_requests' = << >>
              /\ DOMAIN pr_map' = {}
              /\ pr_counter' = pr_counter
              /\ UNCHANGED <<commits, branches, head, staging_stack>>
      /\ (ret.op = "clear_pull_requests" /\ ret'.op = "list_pull_requests")
           => ret'.val = << >>
      /\ (ret.op = "clear_pull_requests" /\ ret'.op = "get_next_pull_request")
           => ret'.val = None
      /\ (ret'.op \in PRWriteOps /\ IssuedAndCleared(ret'.args[1]))
           => (ret'.err = ErrPRMissing /\ UNCHANGED pr_vars) ]_vars

\* approve of PR-1 after the clear that removed it
C22_Witness ==
  /\ ret.op = "approve_pull_request"
  /\ ret.args[1] = PrId(1)
  /\ ret.err = ErrPRMissing
  /\ pr_counter = 2
  /\ DOMAIN pr_map = {}

\* C24: a pull request has a closed timestamp exactly when its status is not
\* open; a review of an open pull request adds the reviewer to its reviewers
\* and changes neither its status nor its closed timestamp.
C24_ClosedIffNotOpen ==
  [][ /\ \A id \in DOMAIN pr_map' :
           (pr_map'[id].closed_at # None) <=> (pr_map'[id].status # "open")
      /\ (/\ ret'.op = "review_pull_request"
          /\ ret'.args[1] \in DOMAIN pr_map
          /\ pr_map[ret'.args[1]].status = "open")
           => LET id == ret'.args[1]
              IN  /\ ret'.err = Ok
                  /\ pr_map'[id].reviewers =
                       pr_map[id].reviewers \cup {ret'.args[2]}
                  /\ pr_map'[id].status = "open"
                  /\ pr_map'[id].closed_at = None ]_vars

\* a review went through on one pull request while the other is closed
C24_Witness ==
  /\ ret.op = "review_pull_request" /\ ret.err = Ok
  /\ ret.args[2] \in pr_map[ret.args[1]].reviewers
  /\ pr_map[ret.args[1]].closed_at = None
  /\ \E id \in DOMAIN pr_map :
       pr_map[id].status = "cancelled" /\ pr_map[id].closed_at \in ClosedTimes

\* C27: the queue and the id index hold the same pull requests, each once; a
\* pull request that is created is in both, and only clear_pull_requests
\* removes one.
C27_QueueIsIndex ==
  [][ /\ Range(pull_requests') = DOMAIN pr_map'
      /\ NoDuplicates(pull_requests')
      /\ CreateSucceeded
           => (ret'.val \in Range(pull_requests') /\ ret'.val \in DOMAIN pr_map')
      /\ (DOMAIN pr_map \ DOMAIN pr_map' # {}
            \/ Range(pull_requests) \ Range(pull_requests') # {})
           => ret'.op = "clear_pull_requests" ]_vars

\* two pull requests are tracked after one was closed and the queue was listed
C27_Witness ==
  /\ ret.op = "list_pull_requests"
  /\ Len(pull_requests) = 2
  /\ DOMAIN pr_map = { PrId(1), PrId(2) }
  /\ pr_map[PrId(1)].status = "rejected"
  /\ pr_map[PrId(2)].tags # {}

----------------------------------------------------------------------------
(* Properties of tag_pull_request (SpecTag) *)

\* C25: tag on a tracked pull request succeeds in every status, adds the text
\* to its tags and changes neither its status nor its reviewers; it fails,
\* with the not-found error, only when the id is absent; tagging again with
\* the same text changes nothing.
C25_TagAnyStatus ==
  [][ (ret'.op = "tag_pull_request")
        => LET id == ret'.args[1]
               tag == ret'.args[2]
           IN  IF id \in DOMAIN pr_map
               THEN /\ ret'.err = Ok
                    /\ pr_map'[id].tags = pr_map[id].tags \cup {tag}
                    /\ pr_map'[id].status = pr_map[id].status
                    /\ pr_map'[id].reviewers = pr_map[id].reviewers
                    /\ (tag \in pr_map[id].tags) => pr_map' = pr_map
                    /\ (ret.op = "tag_pull_request" /\ ret.args = ret'.args)
                         => pr_map' = pr_map
               ELSE /\ ret'.err = ErrPRMissing
                    /\ UNCHANGED pr_vars ]_vars

\* a second text was put on a cancelled pull request that has a reviewer
C25_Witness ==
  /\ ret.op = "tag_pull_request" /\ ret.err = Ok
  /\ pr_map[ret.args[1]].status = "cancelled"
  /\ pr_map[ret.args[1]].tags = TagTexts
  /\ pr_map[ret.args[1]].reviewers # {}

----------------------------------------------------------------------------
(* Properties of add (SpecAdd) *)

\* the commit of head records the path with a content other than this one
HeadHasOtherContent(filename, content) ==
  /\ head # None
  /\ \E i \in DOMAIN commits[head].changes :
       /\ commits[head].changes[i][1] = filename
       /\ commits[head].changes[i][2] # content

\* C26: add(path, content) stages the entry as modified exactly when the
\* commit of head has the path with a different content, and as added in
\* every other case: no head, path not in the changes of the commit of head,
\* or the same content.
C26_AddedOrModified ==
  [][ (ret'.op = "add")
        => LET top == Head(staging_stack')
           IN  /\ top.path = ret'.args[1]
               /\ top.content = ret'.args[2]
               /\ top.status \in {"A", "M"}
               /\ (top.status = "M")
                    <=> HeadHasOtherContent(ret'.args[1], ret'.args[2]) ]_vars

\* head rewrote a.txt, its parent wrote b.txt: a.txt is staged as modified on
\* top of b.txt, staged as added
C26_Witness ==
  /\ ret.op = "add"
  /\ head = ThirdCommit.id
  /\ Len(staging_stack) = 2
  /\ staging_stack[1].path = <<"a">> /\ staging_stack[1].status = "M"
  /\ staging_stack[2].path = <<"b">> /\ staging_stack[2].status = "A"

----------------------------------------------------------------------------
(* Properties of create_pull_request (SpecCreate) *)

\* the commits of a branch: its tip and the ancestors of its tip
CommitsOfBranch(b) == Ancestors(branches[b])

\* C18: create_pull_request fails with an unknown-branch error when the source
\* or the target is not a branch, and with the no-changes error when every
\* commit of the source is the tip or an ancestor of the tip of the target, as
\* when both point at the same commit or are the same branch; a failed create
\* leaves the id counter, the queue and the id index as they were.
C18_CreateFailures ==
  [][ (ret'.op = "create_pull_request")
        => LET src == ret'.args[3]
               tgt == ret'.args[4]
           IN  /\ (src \notin DOMAIN branches \/ tgt \notin DOMAIN branches)
                    => ret'.err \in {ErrSourceMissing, ErrTargetMissing}
               /\ (/\ src \in DOMAIN branches /\ tgt \in DOMAIN branches
                   /\ CommitsOfBranch(src) \subseteq CommitsOfBranch(tgt))
                    => ret'.err = ErrNoChanges
               /\ (/\ src \in DOMAIN branches /\ tgt \in DOMAIN branches
                   /\ (src = tgt \/ branches[src] = branches[tgt]))
                    => ret'.err = ErrNoChanges
               /\ (ret'.err # Ok) => UNCHANGED pr_vars ]_vars

\* a create whose source is behind its target failed after the create in the
\* other direction had succeeded
C18_Witness ==
  /\ ret.op = "create_pull_request"
  /\ ret.err = ErrNoChanges
  /\ ret.args[3] # ret.args[4]
  /\ branches[ret.args[3]] # None
  /\ CommitsOfBranch(ret.args[3]) # CommitsOfBranch(ret.args[4])
  /\ pr_counter = 1
  /\ pull_requests = << PrId(1) >>

\* position of a commit on the parent walk of a branch
IndexIn(seq, x) == CHOOSE i \in DOMAIN seq : seq[i] = x

\* C19: a pull request created from source to target lists exactly the commits
\* of the parent walk of the source that are not on the parent walk of the
\* target, in the order of the walk of the source, newest first, and its
\* modified files are the union of the changes keys of those commits.
C19_CommitListAndFiles ==
  [][ (ret'.op = "create_pull_request" /\ ret'.err = Ok)
        => LET pr == pr_map'[ret'.val]
               walk == get_branch_commits(commits, branches, ret'.args[3]).ids
               ids == pr.commit_ids
           IN  /\ pr.source_branch = ret'.args[3]
               /\ pr.target_branch = ret'.args[4]
               /\ Range(ids) = CommitsOfBranch(ret'.args[3]) \
                                 CommitsOfBranch(ret'.args[4])
               /\ NoDuplicates(ids)
               /\ \A i, j \in DOMAIN ids :
                    i < j => IndexIn(walk, ids[i]) < IndexIn(walk, ids[j])
               /\ \A i \in DOMAIN ids :
                    i < Len(ids) => commits[ids[i]].parent_id = ids[i + 1]
               /\ pr.modified_files =
                    { f \in {<<"a">>, <<"b">>} :
                        \E c \in Range(ids) : OrdHas(commits[c].changes, f) } ]_vars

\* the pull request x -> main of the repository with "first" on main and
\* "second" on x, both writing a.txt: exactly the second commit, files {a.txt}
C19_Witness ==
  /\ ret.op = "create_pull_request" /\ ret.err = Ok
  /\ branches["main"] = FirstCommit.id
  /\ branches["x"] = SecondOnA.id
  /\ pr_map[ret.val].source_branch = "x"
  /\ pr_map[ret.val].target_branch = "main"
  /\ pr_map[ret.val].commit_ids = << SecondOnA.id >>
  /\ pr_map[ret.val].modified_files = { <<"a">> }

----------------------------------------------------------------------------
(* Properties of status (SpecView) *)

\* the files a status list reports from the staging area, in its order
StagedPart(status_list) == SelectSeq(status_list, LAMBDA e : e.status # "new")

\* C28: status() changes nothing: the staging area holds the same entries in
\* the same stack order after it, and head, branches, working directory and
\* pull requests are as before; it reports the staged files from the top
\* down.  The entries add pops and pushes back, those of the other paths, keep
\* their order, and the stack commit pushes back before it clears it is the
\* stack it found.
C28_StatusIsAView ==
  [][ /\ (ret'.op = "status")
           => /\ staging_stack' = staging_stack
              /\ UNCHANGED <<commits, current_branch, branches, head,
                             working_directory, detached_head, pr_vars>>
              /\ StagedPart(ret'.val) =
                   [i \in DOMAIN staging_stack |->
                      FileStatus(staging_stack[i].path, staging_stack[i].status,
                                 staging_stack[i].content)]
      /\ (ret'.op = "add")
           => OtherPaths(staging_stack', ret'.args[1])
                = OtherPaths(staging_stack, ret'.args[1])
      /\ (ret'.op = "commit" /\ ret'.err = Ok)
           => RestoredByCommit(staging_stack) = staging_stack ]_vars

\* status ran on two staged files after a commit
C28_Witness ==
  /\ ret.op = "status"
  /\ Len(staging_stack) = 2
  /\ Len(ret.val) = 2
  /\ head # None

----------------------------------------------------------------------------
(* Properties of the references (SpecRef) *)

StoredOrNone(id) == id = None \/ id \in DOMAIN commits

ReferentialIntegrity ==
  /\ StoredOrNone(head)
  /\ \A b \in DOMAIN branches : StoredOrNone(branches[b])
  /\ \A c \in DOMAIN commits : StoredOrNone(commits[c].parent_id)
  /\ current_branch \in DOMAIN branches
  /\ \A id \in DOMAIN pr_map :
       \A i \in DOMAIN pr_map[id].commit_ids :
         pr_map[id].commit_ids[i] \in DOMAIN commits

\* C30: in every reachable state head is none or a stored commit, every branch
\* pointer is none or a stored commit, the parent of every commit is none or a
\* stored commit, the current branch is a branch, and every commit listed in
\* a tracked pull request is stored; no branch and no commit is ever removed.
C30_ReferentialIntegrity ==
  [][ /\ ReferentialIntegrity
      /\ ReferentialIntegrity'
      /\ DOMAIN branches \subseteq DOMAIN branches'
      /\ DOMAIN commits \subseteq DOMAIN commits' ]_vars

\* head is detached on the parent of the commit a tracked pull request lists
C30_Witness ==
  /\ detached_head
  /\ head # None
  /\ \E id \in DOMAIN pr_map :
       /\ pr_map[id].commit_ids # << >>
       /\ commits[pr_map[id].commit_ids[1]].parent_id = head
  /\ \E b \in DOMAIN branches : branches[b] # head /\ branches[b] # None

----------------------------------------------------------------------------
(* Properties of the repository manager (SpecManager) *)

Named(name) == { i \in DOMAIN repositories : repositories[i].name = name }

\* C29: switch_repository(name) selects a repository of that name when the
\* list has one, and fails with the not-found error only when it has none.
C29_SwitchByName ==
  [][ (ret'.op = "switch_repository")
        => IF Named(ret'.args[1]) # {}
           THEN /\ ret'.err = Ok
                /\ current_repository' # None
                /\ current_repository'.name = ret'.args[1]
           ELSE ret'.err = ErrRepoMissing ]_vars

----------------------------------------------------------------------------
(* Properties of the readers (SpecReaders) *)

\* what a reader returns when nothing else runs
AloneResult(kind) ==
  CASE kind = "status" -> status(StagedAtStart, working_directory).status_list
    [] kind = "log"    -> get_commit_history(commits, head).ids
    [] kind = "list"   -> ListDrain(QueueAtStart, << >>, << >>).result
    [] kind = "next"   -> Peek(QueueAtStart)

AllDone == \A p \in DOMAIN readers : readers[p].pc = "done"

\* C23: status, log, list and next may run at the same time: whatever the
\* interleaving of their steps, each returns what it returns when run alone,
\* and when all have returned the staging area and the queue of pull requests
\* hold the same entries in the same order as before.
C23_ReadersDoNotInterfere ==
  /\ \A p \in DOMAIN readers :
       readers[p].pc = "done" => readers[p].result = AloneResult(readers[p].kind)
  /\ AllDone => (staging_stack = StagedAtStart /\ pull_requests = QueueAtStart)

----------------------------------------------------------------------------
(* Properties of checkout of the current branch (SpecWork) *)

\* C31: checkout(b) of the branch b that is already current, with the
\* repository not detached and the staging area empty, changes nothing: head,
\* the branch pointers and the working directory are after the call what they
\* were before it, in every state add and commit lead to.
C31_CheckoutCurrentIsNoOp ==
  [][ (/\ ret'.op = "checkout"
       /\ ret'.args[1] = current_branch
       /\ ~detached_head
       /\ IsEmpty(staging_stack))
        => UNCHANGED <<head, branches, working_directory>> ]_vars

----------------------------------------------------------------------------
(* Properties of the command checkout -b (SpecCli) *)

\* C32: the command checkout -b <name> is all-or-nothing: whenever it returns
\* an error (the name exists already, or the staging area is non-empty), the
\* branches, the current branch and head are what they were before it.
C32_CheckoutBAllOrNothing ==
  [][ (ret'.op = "checkout -b" /\ ret'.err # Ok)
        => UNCHANGED <<branches, current_branch, head>> ]_vars

====
